---- MODULE Spec2Model ----
(***************************************************************************)
(* analyze_pdf_fonts (src/analyze-pdf-fonts.py) as a state machine.        *)
(*                                                                         *)
(* The procedure is sequential: a header, a PyPDF2 phase inside            *)
(* try/except, a separator, a pdfplumber phase inside try/except.  Every   *)
(* statement is one action; pc is the statement about to run.  The two     *)
(* libraries and the file system are the environment: env holds what they  *)
(* return for the file being analysed, and whether a call may raise.       *)
(* Console output is the sequence out of print calls.                      *)
(*                                                                         *)
(* Font sizes are integers in hundredths of a point (10.04 is 1004).       *)
(* Strings are sequences; an optional value (None or a value) is a record  *)
(* [some, s].                                                              *)
(***************************************************************************)
EXTENDS Integers, Sequences, FiniteSets, TLC

VARIABLES
    env,         \* the file and the libraries' answers for it (never changes)
    pc,          \* the statement about to run
    out,         \* the print calls made so far, in order
    file1,       \* the handle of open(pdf_path, 'rb'): "none", "open", "closed"
    handle2,     \* the handle of pdfplumber.open: "none", "open", "closed"
    text,        \* local `text`
    chars,       \* local `chars`
    fonts,       \* local `fonts`
    font_sizes,  \* local `font_sizes`
    k,           \* position of the running for loop (0-based)
    examined,    \* history: indexes of chars the collection loop has read
    raised1,     \* history: the statement of phase 1 that raised, or "none"
    raised2      \* history: the statement of phase 2 that raised, or "none"

vars == <<env, pc, out, file1, handle2, text, chars, fonts, font_sizes, k,
          examined, raised1, raised2>>

(***************************************************************************)
(* Program constants.                                                      *)
(***************************************************************************)
Preview1Len == 500
Preview2Len == 300
SampleLimit == 100
SampleShow == 5
SepWidth == 50

(***************************************************************************)
(* Bounds of the environment.                                              *)
(***************************************************************************)
MaxPages == 2
MaxMeta == 1
Slack == 1

Min(a, b) == IF a < b THEN a ELSE b

\* s[:n]
Take(s, n) == SubSeq(s, 1, Min(n, Len(s)))

None == [some |-> FALSE, s |-> <<>>]
Some(s) == [some |-> TRUE, s |-> s]

\* Python truth value of an optional string or mapping: None and empty are false.
Truthy(v) == v.some /\ Len(v.s) > 0

(***************************************************************************)
(* round(size, 1) on a double.  Away from a tie the nearest tenth.  A      *)
(* decimal tie x.x5 is decided by the double nearest to it: when that      *)
(* double is the tie exactly (hundredths divisible by 25) the even tenth   *)
(* wins, otherwise the side the double lies on.  DoubleBelowTie lists the  *)
(* sizes used here whose double lies below the tie (10.35 is               *)
(* 10.3499999999999996...); the other inexact ones used lie above.         *)
(***************************************************************************)
DoubleBelowTie == {1035}

RoundRaw(h) == h

Round1(h) ==
    LET lo == (h \div 10) * 10
        r == h % 10
    IN  IF r < 5 THEN lo
        ELSE IF r > 5 THEN lo + 10
        ELSE IF h % 25 = 0
             THEN (IF (lo \div 10) % 2 = 0 THEN lo ELSE lo + 10)
        ELSE IF h \in DoubleBelowTie THEN lo
        ELSE lo + 10

(***************************************************************************)
(* sorted(font_sizes): the set is iterated in some order and the elements  *)
(* are sorted ascending (insertion into a sorted list).                    *)
(***************************************************************************)
InsertSorted(s, x) ==
    LET below == SelectSeq(s, LAMBDA y : y <= x)
        above == SelectSeq(s, LAMBDA y : y > x)
    IN  below \o <<x>> \o above

RECURSIVE SortList(_)
SortList(s) ==
    IF s = <<>> THEN <<>>
    ELSE InsertSorted(SortList(Tail(s)), Head(s))

\* every order in which the set S may be iterated
Orders(S) ==
    {p \in [1..Cardinality(S) -> S] : \A x \in S : \E i \in DOMAIN p : p[i] = x}

Unsorted(s) == s

sorted(s) == SortList(s)

(***************************************************************************)
(* Character records: dictionaries whose keys text, fontname, size may     *)
(* each be absent.                                                         *)
(***************************************************************************)
Has(char, key) == key \in DOMAIN char

\* char.get(key, default)
Get(char, key, default) == IF Has(char, key) THEN char[key] ELSE default

\* chars[:100] without the slice
SampledAll(cs) == cs

\* chars[:100]
Sampled(cs) == Take(cs, SampleLimit)

\* chars[:5]
Shown(cs) == Take(cs, SampleShow)

\* the line printed for chars[i] (i 0-based)
SampleLine(i, char) ==
    [i |-> i, text |-> Get(char, "text", ""),
     font |-> Get(char, "fontname", "N/A"),
     size |-> Get(char, "size", "N/A")]

(***************************************************************************)
(* The environment: the file at pdf_path and what the libraries return     *)
(* for it.  A string of length n is <<1, ..., n>>: its i-th character is   *)
(* i, so a prefix is recognisable.                                         *)
(***************************************************************************)
TextOf(n) == [i \in 1..n |-> i]

MetaOf(n) == [i \in 1..n |-> [key |-> i, value |-> i]]

Around(n) == {m \in (n - Slack)..(n + Slack) : m >= 0}

\* PdfReader.metadata: None or a mapping
Metas == {None} \cup {Some(MetaOf(n)) : n \in 0..MaxMeta}

\* PyPDF2 extract_text returns a str
Text1s == {Some(TextOf(n)) : n \in {0} \cup Around(Preview1Len)}

\* pdfplumber extract_text returns a str or None
Text2s == {None} \cup {Some(TextOf(n)) : n \in {0} \cup Around(Preview2Len)}

FontNames == {"Helvetica", "Times"}
CoreSizes == {1004, 1006, 1200}
TieSizes == {996, 1025, 1035}

\* an optional field: the empty set (key absent) or a singleton (its value)
Opt(S) == {{}} \cup {{x} : x \in S}

\* the dictionary with each of the three keys present or absent
Record(t, f, z) ==
    [key \in (IF t # {} THEN {"text"} ELSE {})
              \cup (IF f # {} THEN {"fontname"} ELSE {})
              \cup (IF z # {} THEN {"size"} ELSE {})
        |-> CASE key = "text" -> CHOOSE x \in t : TRUE
              [] key = "fontname" -> CHOOSE x \in f : TRUE
              [] OTHER -> CHOOSE x \in z : TRUE]

Records == {Record({"x"}, f, z) : f \in Opt(FontNames), z \in Opt(CoreSizes)}

SizedRecords ==
    {Record({"y"}, {"Helvetica"}, z) : z \in Opt(CoreSizes \cup TieSizes)}

\* a record unlike any of the above, for the positions past the sample
TailRecord == Record({"t"}, {"Symbol"}, {7204})

\* n records: base repeated over the sampled positions, TailRecord after them
CharsOf(base, n) ==
    [i \in 1..n |-> IF i > SampleLimit THEN TailRecord
                    ELSE base[((i - 1) % Len(base)) + 1]]

CharLens == (0..(SampleShow + Slack)) \cup Around(SampleLimit)

Bases == {<<a>> : a \in Records} \cup {<<a, b>> : a, b \in Records}

SizedBases == {<<a, b, c>> : a, b, c \in SizedRecords}

RichChars ==
    {CharsOf(b, n) : b \in Bases, n \in CharLens}
        \cup {CharsOf(b, Len(b)) : b \in SizedBases}

DefaultBase ==
    <<Record({}, {}, {1200}),
      Record({"H"}, {"Helvetica"}, {1004}),
      Record({"i"}, {"Times"}, {}),
      Record({"!"}, {"Helvetica"}, {1104})>>

SmallChars == {CharsOf(DefaultBase, n) : n \in {0, 1, SampleShow + 1}}

Env(e, f, p, m, t1, t2, cs) ==
    [exists |-> e, flaky |-> f, pages |-> p, meta |-> m,
     text1 |-> t1, text2 |-> t2, chars |-> cs]

\* pdf_path names no file
MissingEnvs == {Env(FALSE, FALSE, 0, None, Some(<<>>), None, <<>>)}

\* a file on which any library call may raise
FlakyEnvs ==
    {Env(TRUE, TRUE, 0, m, Some(<<>>), None, <<>>) : m \in Metas}
        \cup {Env(TRUE, TRUE, p, m, t1, t2, cs) :
                p \in 1..MaxPages, m \in Metas, t1 \in Text1s, t2 \in Text2s,
                cs \in SmallChars}

\* a one-page file both libraries read without error
FontEnvs ==
    {Env(TRUE, FALSE, 1, None, Some(<<>>), None, cs) : cs \in RichChars}

Envs == MissingEnvs \cup FlakyEnvs \cup FontEnvs

Line(ph, tag, val) == [ph |-> ph, tag |-> tag, val |-> val]

Say(ph, tag, val) == out' = Append(out, Line(ph, tag, val))

Init ==
    /\ env \in Envs
    /\ pc = "header"
    /\ out = <<>>
    /\ file1 = "none"
    /\ handle2 = "none"
    /\ text = None
    /\ chars = <<>>
    /\ fonts = {}
    /\ font_sizes = {}
    /\ k = 0
    /\ examined = {}
    /\ raised1 = "none"
    /\ raised2 = "none"

Try1 == {"open1", "reader", "pages1", "metaif", "metahdr", "metaitem",
         "pageif1", "extract1", "preview1"}

Try2 == {"open2", "opened", "pages2", "pageif2", "extract2", "prevhdr",
         "preview2", "chars", "initsets", "collect", "fonts", "sizes",
         "samplehdr", "sample"}

\* whether the statement at label may raise on this file
MayRaise(label) ==
    \/ env.flaky
    \/ label \in {"open1", "open2"} /\ ~env.exists

\* whether the statement at label may complete on this file
MayPass(label) == label \in {"open1", "open2"} => env.exists

(***************************************************************************)
(* Phase 1: PyPDF2.                                                        *)
(***************************************************************************)
\* line 7
Header ==
    /\ pc = "header"
    /\ Say(0, "Analyzing PDF", "pdf_path")
    /\ pc' = "open1"
    /\ UNCHANGED <<env, file1, handle2, text, chars, fonts, font_sizes, k,
                   examined, raised1, raised2>>

\* line 11
Open1 ==
    /\ pc = "open1"
    /\ MayPass("open1")
    /\ file1' = "open"
    /\ pc' = "reader"
    /\ UNCHANGED <<env, out, handle2, text, chars, fonts, font_sizes, k,
                   examined, raised1, raised2>>

\* line 12
Reader ==
    /\ pc = "reader"
    /\ pc' = "pages1"
    /\ UNCHANGED <<env, out, file1, handle2, text, chars, fonts, font_sizes, k,
                   examined, raised1, raised2>>

\* line 13
Pages1 ==
    /\ pc = "pages1"
    /\ Say(1, "Number of pages", env.pages)
    /\ pc' = "metaif"
    /\ UNCHANGED <<env, file1, handle2, text, chars, fonts, font_sizes, k,
                   examined, raised1, raised2>>

\* line 16
MetaIf ==
    /\ pc = "metaif"
    /\ pc' = IF Truthy(env.meta) THEN "metahdr" ELSE "pageif1"
    /\ UNCHANGED <<env, out, file1, handle2, text, chars, fonts, font_sizes, k,
                   examined, raised1, raised2>>

\* line 17
MetaHdr ==
    /\ pc = "metahdr"
    /\ Say(1, "PDF Metadata", "")
    /\ k' = 0
    /\ pc' = "metaitem"
    /\ UNCHANGED <<env, file1, handle2, text, chars, fonts, font_sizes,
                   examined, raised1, raised2>>

\* lines 18-19, one iteration
MetaItem ==
    /\ pc = "metaitem"
    /\ Say(1, "meta", env.meta.s[k + 1])
    /\ k' = k + 1
    /\ pc' = IF k + 1 < Len(env.meta.s) THEN "metaitem" ELSE "pageif1"
    /\ UNCHANGED <<env, file1, handle2, text, chars, fonts, font_sizes,
                   examined, raised1, raised2>>

\* line 22
PageIf1 ==
    /\ pc = "pageif1"
    /\ pc' = IF env.pages > 0 THEN "extract1" ELSE "close1"
    /\ UNCHANGED <<env, out, file1, handle2, text, chars, fonts, font_sizes, k,
                   examined, raised1, raised2>>

\* lines 23-24
Extract1 ==
    /\ pc = "extract1"
    /\ text' = env.text1
    /\ pc' = "preview1"
    /\ UNCHANGED <<env, out, file1, handle2, chars, fonts, font_sizes, k,
                   examined, raised1, raised2>>

\* line 25
Preview1 ==
    /\ pc = "preview1"
    /\ Say(1, "First 500 characters of text",
           Take(text.s, Preview1Len) \o <<"...">>)
    /\ pc' = "close1"
    /\ UNCHANGED <<env, file1, handle2, text, chars, fonts, font_sizes, k,
                   examined, raised1, raised2>>

\* the file opened without a with block
Close1Leak ==
    /\ pc = "close1"
    /\ pc' = "sep"
    /\ UNCHANGED <<env, out, file1, handle2, text, chars, fonts, font_sizes, k,
                   examined, raised1, raised2>>

\* line 11, leaving the with block normally
Close1 ==
    /\ pc = "close1"
    /\ file1' = "closed"
    /\ pc' = "sep"
    /\ UNCHANGED <<env, out, handle2, text, chars, fonts, font_sizes, k,
                   examined, raised1, raised2>>

\* the handle of a with block after an exception has left the block
Unreleased(h) == h

Released(h) == IF h = "open" THEN "closed" ELSE h

\* where an exception raised in a try body goes
Uncaught(handler) == "crash"

Caught(handler) == handler

\* lines 9-27: a statement of the try body raises; the with block, if
\* entered, releases the file on the way out
Raise1 ==
    /\ pc \in Try1
    /\ MayRaise(pc)
    /\ raised1' = pc
    /\ file1' = Released(file1)
    /\ pc' = Caught("except1")
    /\ UNCHANGED <<env, out, handle2, text, chars, fonts, font_sizes, k,
                   examined, raised2>>

\* the handler discarding what the phase had printed
Except1Rollback ==
    /\ pc = "except1"
    /\ out' = Append(SelectSeq(out, LAMBDA l : l.ph # 1),
                     Line(1, "PyPDF2 error", raised1))
    /\ pc' = "sep"
    /\ UNCHANGED <<env, file1, handle2, text, chars, fonts, font_sizes, k,
                   examined, raised1, raised2>>

\* the separator printed only when phase 1 did not raise
Except1NoSeparator ==
    /\ pc = "except1"
    /\ Say(1, "PyPDF2 error", raised1)
    /\ pc' = "open2"
    /\ UNCHANGED <<env, file1, handle2, text, chars, fonts, font_sizes, k,
                   examined, raised1, raised2>>

\* line 28
Except1 ==
    /\ pc = "except1"
    /\ Say(1, "PyPDF2 error", raised1)
    /\ pc' = "sep"
    /\ UNCHANGED <<env, file1, handle2, text, chars, fonts, font_sizes, k,
                   examined, raised1, raised2>>

\* line 30
Separator ==
    /\ pc = "sep"
    /\ Say(0, "separator", [i \in 1..SepWidth |-> "="])
    /\ pc' = "open2"
    /\ UNCHANGED <<env, file1, handle2, text, chars, fonts, font_sizes, k,
                   examined, raised1, raised2>>

(***************************************************************************)
(* Phase 2: pdfplumber.                                                    *)
(***************************************************************************)
\* line 34
Open2 ==
    /\ pc = "open2"
    /\ MayPass("open2")
    /\ handle2' = "open"
    /\ pc' = "opened"
    /\ UNCHANGED <<env, out, file1, text, chars, fonts, font_sizes, k,
                   examined, raised1, raised2>>

\* line 35
Opened ==
    /\ pc = "opened"
    /\ Say(2, "PDF opened with pdfplumber", "")
    /\ pc' = "pages2"
    /\ UNCHANGED <<env, file1, handle2, text, chars, fonts, font_sizes, k,
                   examined, raised1, raised2>>

\* line 36
Pages2 ==
    /\ pc = "pages2"
    /\ Say(2, "Number of pages", env.pages)
    /\ pc' = "pageif2"
    /\ UNCHANGED <<env, file1, handle2, text, chars, fonts, font_sizes, k,
                   examined, raised1, raised2>>

\* lines 39-40
PageIf2 ==
    /\ pc = "pageif2"
    /\ pc' = IF env.pages > 0 THEN "extract2" ELSE "close2"
    /\ UNCHANGED <<env, out, file1, handle2, text, chars, fonts, font_sizes,
                   k, examined, raised1, raised2>>

\* `if text:` with the truth test left out
TextIfAlways(t) == TRUE

\* line 44
TextIf(t) == Truthy(t)

\* lines 43-44
Extract2 ==
    /\ pc = "extract2"
    /\ text' = env.text2
    /\ pc' = IF TextIf(env.text2) THEN "prevhdr" ELSE "chars"
    /\ UNCHANGED <<env, out, file1, handle2, chars, fonts, font_sizes, k,
                   examined, raised1, raised2>>

\* line 45
PrevHdr ==
    /\ pc = "prevhdr"
    /\ Say(2, "Extracted text preview", "")
    /\ pc' = "preview2"
    /\ UNCHANGED <<env, file1, handle2, text, chars, fonts, font_sizes, k,
                   examined, raised1, raised2>>

\* line 46
Preview2 ==
    /\ pc = "preview2"
    /\ Say(2, "preview", Take(text.s, Preview2Len) \o <<"...">>)
    /\ pc' = "chars"
    /\ UNCHANGED <<env, file1, handle2, text, chars, fonts, font_sizes, k,
                   examined, raised1, raised2>>

\* lines 49-50
Chars ==
    /\ pc = "chars"
    /\ chars' = env.chars
    /\ pc' = IF Len(env.chars) > 0 THEN "initsets" ELSE "close2"
    /\ UNCHANGED <<env, out, file1, handle2, text, fonts, font_sizes, k,
                   examined, raised1, raised2>>

\* lines 52-53
InitSets ==
    /\ pc = "initsets"
    /\ fonts' = {}
    /\ font_sizes' = {}
    /\ k' = 0
    /\ examined' = {}
    /\ pc' = "collect"
    /\ UNCHANGED <<env, out, file1, handle2, text, chars, raised1, raised2>>

\* lines 55-59, one iteration: the record at 0-based index k of chars[:100]
Collect ==
    /\ pc = "collect"
    /\ LET char == Sampled(chars)[k + 1]
       IN  /\ fonts' = IF Has(char, "fontname")
                       THEN fonts \cup {char.fontname} ELSE fonts
           /\ font_sizes' = IF Has(char, "size")
                            THEN font_sizes \cup {Round1(char.size)}
                            ELSE font_sizes
    /\ examined' = examined \cup {k}
    /\ k' = k + 1
    /\ pc' = IF k + 1 < Len(Sampled(chars)) THEN "collect" ELSE "fonts"
    /\ UNCHANGED <<env, out, file1, handle2, text, chars, raised1, raised2>>

\* line 61
Fonts ==
    /\ pc = "fonts"
    /\ Say(2, "Unique fonts found", fonts)
    /\ pc' = "sizes"
    /\ UNCHANGED <<env, file1, handle2, text, chars, fonts, font_sizes, k,
                   examined, raised1, raised2>>

\* line 62: the set is iterated in an order of its own
Sizes ==
    /\ pc = "sizes"
    /\ \E order \in Orders(font_sizes) :
           Say(2, "Font sizes found", sorted(order))
    /\ pc' = "samplehdr"
    /\ UNCHANGED <<env, file1, handle2, text, chars, fonts, font_sizes, k,
                   examined, raised1, raised2>>

\* line 65
SampleHdr ==
    /\ pc = "samplehdr"
    /\ Say(2, "Sample character details", "")
    /\ k' = 0
    /\ pc' = "sample"
    /\ UNCHANGED <<env, file1, handle2, text, chars, fonts, font_sizes,
                   examined, raised1, raised2>>

\* lines 66-67, one iteration
Sample ==
    /\ pc = "sample"
    /\ Say(2, "Char", SampleLine(k, Shown(chars)[k + 1]))
    /\ k' = k + 1
    /\ pc' = IF k + 1 < Len(Shown(chars)) THEN "sample" ELSE "close2"
    /\ UNCHANGED <<env, file1, handle2, text, chars, fonts, font_sizes,
                   examined, raised1, raised2>>

\* line 34, leaving the with block normally
Close2 ==
    /\ pc = "close2"
    /\ handle2' = "closed"
    /\ pc' = "done"
    /\ UNCHANGED <<env, out, file1, text, chars, fonts, font_sizes, k,
                   examined, raised1, raised2>>

\* lines 32-69: a statement of the try body raises; the with block, if
\* entered, releases the document on the way out
Raise2 ==
    /\ pc \in Try2
    /\ MayRaise(pc)
    /\ raised2' = pc
    /\ handle2' = Released(handle2)
    /\ pc' = Caught("except2")
    /\ UNCHANGED <<env, out, file1, text, chars, fonts, font_sizes, k,
                   examined, raised1>>

\* the handler passing over the exception without a message
Except2Silent ==
    /\ pc = "except2"
    /\ pc' = "done"
    /\ UNCHANGED <<env, out, file1, handle2, text, chars, fonts, font_sizes, k,
                   examined, raised1, raised2>>

\* line 70
Except2 ==
    /\ pc = "except2"
    /\ Say(2, "pdfplumber error", raised2)
    /\ pc' = "done"
    /\ UNCHANGED <<env, file1, handle2, text, chars, fonts, font_sizes, k,
                   examined, raised1, raised2>>

Next ==
    \/ Header \/ Open1 \/ Reader \/ Pages1 \/ MetaIf \/ MetaHdr \/ MetaItem
    \/ PageIf1 \/ Extract1 \/ Preview1 \/ Close1 \/ Raise1 \/ Except1
    \/ Separator
    \/ Open2 \/ Opened \/ Pages2 \/ PageIf2 \/ Extract2 \/ PrevHdr \/ Preview2
    \/ Chars \/ InitSets \/ Collect \/ Fonts \/ Sizes \/ SampleHdr \/ Sample
    \/ Close2 \/ Raise2 \/ Except2

Spec == Init /\ [][Next]_vars

(***************************************************************************)
(* Vocabulary of the properties.                                           *)
(***************************************************************************)
\* the statements of each try body, in program order
Order1 == <<"open1", "reader", "pages1", "metaif", "metahdr", "metaitem",
            "pageif1", "extract1", "preview1">>

Order2 == <<"open2", "opened", "pages2", "pageif2", "extract2", "prevhdr",
            "preview2", "chars", "initsets", "collect", "fonts", "sizes",
            "samplehdr", "sample">>

LabelOrder ==
    <<"header">> \o Order1 \o <<"close1", "except1", "sep">> \o Order2
        \o <<"close2", "except2", "done", "crash">>

Pos(seq, x) == CHOOSE i \in DOMAIN seq : seq[i] = x

Loops == {"metaitem", "collect", "sample"}

\* the statement that prints the lines of a tag
PrintedAt(ph, tag) ==
    CASE tag = "Number of pages" -> IF ph = 1 THEN "pages1" ELSE "pages2"
      [] tag = "PDF Metadata" -> "metahdr"
      [] tag = "meta" -> "metaitem"
      [] tag = "First 500 characters of text" -> "preview1"
      [] tag = "PDF opened with pdfplumber" -> "opened"
      [] tag = "Extracted text preview" -> "prevhdr"
      [] tag = "preview" -> "preview2"
      [] tag = "Unique fonts found" -> "fonts"
      [] tag = "Font sizes found" -> "sizes"
      [] tag = "Sample character details" -> "samplehdr"
      [] tag = "Char" -> "sample"

ErrorTag(ph) == IF ph = 1 THEN "PyPDF2 error" ELSE "pdfplumber error"

\* the positions of out holding a line of this phase and tag
At(ph, tag) == {i \in DOMAIN out : out[i].ph = ph /\ out[i].tag = tag}

Tagged(tag) == {i \in DOMAIN out : out[i].tag = tag}

OfPhase(ph) == {i \in DOMAIN out : out[i].ph = ph}

Phase1Over == pc \notin (Try1 \cup {"header", "close1", "except1"})

Phase2Over == pc = "done"

InPhase2 == pc \in (Try2 \cup {"close2", "except2", "done"})

\* the records the collection loop is meant to read, and what they carry
First100 == {chars[i] : i \in 1..Min(Len(chars), SampleLimit)}

SizesCarried == {c.size : c \in {d \in First100 : Has(d, "size")}}

NamesCarried == {c.fontname : c \in {d \in First100 : Has(d, "fontname")}}

\* the collection loop has run to its end and the sets are still those it built
Collected == pc \in {"fonts", "sizes", "samplehdr", "sample"}

\* an upper bound on the statements still to run
Rank ==
    (Len(LabelOrder) - Pos(LabelOrder, pc))
        * (SampleLimit + SampleShow + MaxMeta + Slack + 1) - k

Stopped == pc = "done"

(***************************************************************************)
(* C1: whatever phase 1 does - succeed, or raise at its open, reader       *)
(* construction, page count, metadata or text extraction - phase 2 is      *)
(* started afterwards and the run reaches normal completion: no exception  *)
(* of either phase leaves analyze_pdf_fonts.  As safety: the run never     *)
(* crashes, can always take a step until it is done, every step brings it  *)
(* closer to the end, and a finished run has attempted pdfplumber.open.    *)
(***************************************************************************)
C1_BothPhasesRunAndComplete ==
    /\ [](pc # "crash")
    /\ [](Stopped \/ ENABLED Next)
    /\ [][Rank' < Rank]_vars
    /\ [](Phase1Over /\ pc \notin {"sep", "open2"}
            => handle2 # "none" \/ raised2 = "open2")

C1_Witness ==
    /\ pc = "done"
    /\ raised1 = "extract1"
    /\ raised2 # "none"

(***************************************************************************)
(* C2: when pdf_path names no file, the output has exactly one "PyPDF2     *)
(* error" line and, later, exactly one "pdfplumber error" line; neither    *)
(* phase prints a page count, a text preview or a font report; the run     *)
(* ends normally.                                                          *)
(***************************************************************************)
ReportTags ==
    {"Number of pages", "First 500 characters of text",
     "Extracted text preview", "preview", "Unique fonts found",
     "Font sizes found", "Sample character details", "Char"}

C2_MissingFile ==
    ~env.exists =>
        /\ pc # "crash"
        /\ Stopped \/ ENABLED Next
        /\ \A i \in DOMAIN out : out[i].tag \notin ReportTags
        /\ Cardinality(Tagged("PyPDF2 error")) <= 1
        /\ Cardinality(Tagged("pdfplumber error")) <= 1
        /\ pc = "done" =>
            \E i, j \in DOMAIN out :
                /\ Tagged("PyPDF2 error") = {i}
                /\ Tagged("pdfplumber error") = {j}
                /\ i < j

C2_Witness ==
    /\ ~env.exists
    /\ pc = "done"
    /\ Len(out) > 2

(***************************************************************************)
(* C3: output is append-only, and a phase that raises at some statement    *)
(* keeps every line it printed before, then prints exactly one error line  *)
(* naming its library, and prints no line of its later statements.         *)
(***************************************************************************)
AppendOnly ==
    /\ Len(out') >= Len(out)
    /\ \A i \in DOMAIN out :
           /\ out'[i].ph = out[i].ph
           /\ out'[i].tag = out[i].tag
           /\ out'[i].val = out[i].val

\* phase ph raised at statement `raised` of `order` and its handler has run
FailedPhaseOutput(ph, raised, order) ==
    /\ Cardinality(At(ph, ErrorTag(ph))) = 1
    /\ \A i \in OfPhase(ph) :
           \/ /\ out[i].tag = ErrorTag(ph)
              /\ out[i].val = raised
              /\ \A j \in OfPhase(ph) : j <= i
           \/ /\ out[i].tag # ErrorTag(ph)
              /\ LET at == Pos(order, PrintedAt(ph, out[i].tag))
                 IN  \/ at < Pos(order, raised)
                     \/ at = Pos(order, raised) /\ raised \in Loops

C3_State ==
    /\ raised1 # "none" /\ Phase1Over => FailedPhaseOutput(1, raised1, Order1)
    /\ raised2 # "none" /\ Phase2Over => FailedPhaseOutput(2, raised2, Order2)
    /\ raised1 = "none" \/ pc = "except1" => At(1, ErrorTag(1)) = {}
    /\ raised2 = "none" \/ pc = "except2" => At(2, ErrorTag(2)) = {}

C3_PartialOutputKept == []C3_State /\ [][AppendOnly]_vars

C3_Witness ==
    /\ pc = "done"
    /\ raised1 = "extract1"
    /\ At(1, "meta") # {}
    /\ raised2 = "sample"
    /\ At(2, "Char") # {}

(***************************************************************************)
(* C4: on a first page with n character records the collection loop reads  *)
(* exactly the records at indexes 0..min(n,100)-1, so that no record at    *)
(* index 100 or above reaches the font-name or font-size set; the sample   *)
(* display prints exactly min(n,5) lines, for indexes 0..min(n,5)-1, in    *)
(* order.                                                                  *)
(***************************************************************************)
CharLines == SelectSeq(out, LAMBDA l : l.tag = "Char")

C4_SamplingLimits ==
    /\ \A i \in examined : i < SampleLimit /\ i < Len(chars)
    /\ Collected =>
        /\ examined = 0..(Min(Len(chars), SampleLimit) - 1)
        /\ fonts = NamesCarried
        /\ \A i \in DOMAIN chars :
               (/\ i > SampleLimit
                /\ Has(chars[i], "fontname")
                /\ chars[i].fontname \notin NamesCarried)
                   => chars[i].fontname \notin fonts
        /\ \A i \in DOMAIN chars :
               (/\ i > SampleLimit
                /\ Has(chars[i], "size")
                /\ \A z \in SizesCarried : Round1(z) # Round1(chars[i].size))
                   => Round1(chars[i].size) \notin font_sizes
    /\ Len(CharLines) <= Min(Len(chars), SampleShow)
    /\ \A i \in DOMAIN CharLines :
           /\ CharLines[i].val.i = i - 1
           /\ CharLines[i].val = SampleLine(i - 1, chars[i])
    /\ pc = "close2" /\ Len(chars) > 0
           => Len(CharLines) = Min(Len(chars), SampleShow)

C4_Witness ==
    /\ pc = "done"
    /\ raised2 = "none"
    /\ Len(chars) > SampleLimit
    /\ Cardinality(examined) = SampleLimit
    /\ Len(CharLines) = SampleShow

(***************************************************************************)
(* C5 as stated: the font-name set holds no duplicates, the font-size set  *)
(* holds no two values whose rounding to one decimal coincides, and        *)
(* sampled sizes 10.04 and 10.06 collapse to the single member 10.0.       *)
(***************************************************************************)
NoCoincidingSizes ==
    /\ \A a \in font_sizes : a % 10 = 0
    /\ \A a, b \in font_sizes : Round1(a) = Round1(b) => a = b

C5_AsStated ==
    /\ NoCoincidingSizes
    /\ Collected /\ SizesCarried = {1004, 1006} => font_sizes = {1000}

(***************************************************************************)
(* C5 amended: the font-name set holds no duplicates and the font-size set *)
(* holds only one-decimal values, no two of which coincide after rounding; *)
(* sampled sizes 10.04 and 10.06 do not collapse (they give 10.0 and       *)
(* 10.1), while sizes that round to the same tenth, such as 9.96 and       *)
(* 10.04, collapse to the single member 10.0.                              *)
(***************************************************************************)
C5_RoundedSizesCollapse ==
    /\ NoCoincidingSizes
    /\ Cardinality(fonts) <= Cardinality(FontNames \cup {"Symbol"})
    /\ Collected /\ SizesCarried = {1004, 1006} => font_sizes = {1000, 1010}
    /\ Collected /\ SizesCarried = {996, 1004} => font_sizes = {1000}

C5_Witness ==
    /\ Collected
    /\ SizesCarried = {996, 1004}
    /\ font_sizes = {1000}

(***************************************************************************)
(* C6: whenever the font report is printed, the printed font sizes are the *)
(* strictly ascending sequence of the one-decimal roundings of the sizes   *)
(* of exactly those records among the first 100 that carry a size,         *)
(* whatever the order of the records; records without a size add nothing   *)
(* to it, and records without a fontname add nothing to the font names.    *)
(***************************************************************************)
Ascending(s) == \A i, j \in DOMAIN s : i < j => s[i] < s[j]

C6_SortedSizeReport ==
    /\ \A i \in Tagged("Font sizes found") :
           /\ Ascending(out[i].val)
           /\ {out[i].val[j] : j \in DOMAIN out[i].val}
                  = {Round1(z) : z \in SizesCarried}
    /\ \A i \in Tagged("Unique fonts found") : out[i].val = NamesCarried

C6_Witness ==
    /\ pc = "done"
    /\ \E i \in Tagged("Font sizes found") : Len(out[i].val) >= 3
    /\ \E c \in First100 : ~Has(c, "size")
    /\ \E c \in First100 : ~Has(c, "fontname")
    /\ Has(chars[1], "size") /\ Has(chars[2], "size")
    /\ chars[1].size > chars[2].size

(***************************************************************************)
(* C7: for a file with at least one page whose first page has no           *)
(* extractable text, phase 1 still prints the "First 500 characters"       *)
(* preview, as the empty string followed by the ellipsis, and does not     *)
(* fail on it; phase 2 prints no text-preview line, and still evaluates    *)
(* its character sub-step.                                                 *)
(***************************************************************************)
C7_EmptyText ==
    /\ env.exists /\ ~env.flaky => raised1 = "none" /\ raised2 = "none"
    /\ pc = "preview1" => ENABLED Preview1
    /\ env.pages > 0 /\ env.text1.s = <<>> /\ raised1 = "none" /\ Phase1Over
        => \E i \in DOMAIN out :
               /\ At(1, "First 500 characters of text") = {i}
               /\ out[i].val = <<"...">>
    /\ ~Truthy(env.text2)
        => Tagged("Extracted text preview") = {} /\ Tagged("preview") = {}
    /\ env.pages > 0 /\ ~Truthy(env.text2) /\ raised2 = "none" /\ Phase2Over
        => /\ chars = env.chars
           /\ Len(env.chars) > 0 => Tagged("Unique fonts found") # {}

C7_Witness ==
    /\ pc = "done"
    /\ env.pages > 0
    /\ env.text1.s = <<>>
    /\ ~Truthy(env.text2)
    /\ raised1 = "none"
    /\ raised2 = "none"
    /\ Tagged("Unique fonts found") # {}

(***************************************************************************)
(* C8: the phase-2 document handle is released on every exit path: once    *)
(* phase 2 has ended, normally or by an exception at any statement inside  *)
(* the with block, the handle of pdfplumber.open is no longer held; when   *)
(* the open itself fails no handle is ever held.                           *)
(***************************************************************************)
C8_Handle2Released ==
    /\ pc \in {"except2", "done"} => handle2 # "open"
    /\ raised2 = "open2" => handle2 = "none"
    /\ raised2 \notin {"none", "open2"} => handle2 = "closed"
    /\ handle2 = "open" => pc \in (Try2 \cup {"close2"}) \ {"open2"}

C8_Witness ==
    /\ pc = "done"
    /\ raised2 = "collect"
    /\ handle2 = "closed"

(***************************************************************************)
(* C9 as stated: the phase-1 file handle is not released when phase 1      *)
(* ends, normally or by an exception, and is still open while phase 2      *)
(* runs.                                                                   *)
(***************************************************************************)
C9_AsStated ==
    InPhase2 /\ raised1 # "open1" => file1 = "open"

(***************************************************************************)
(* C9 amended: the phase-1 file handle is opened in a with block, like the *)
(* phase-2 handle: it is released when phase 1 ends, normally or by an     *)
(* exception, and is never open while phase 2 runs.                        *)
(***************************************************************************)
C9_File1Released ==
    /\ Phase1Over \/ pc = "except1" => file1 # "open"
    /\ InPhase2 /\ raised1 # "open1" => file1 = "closed"
    /\ raised1 = "open1" => file1 = "none"
    /\ ~(file1 = "open" /\ handle2 = "open")

C9_Witness ==
    /\ pc = "collect"
    /\ raised1 = "none"
    /\ file1 = "closed"
    /\ handle2 = "open"

(***************************************************************************)
(* C10: in every run, failing or not, the output begins with the           *)
(* "Analyzing PDF" header and holds the separator exactly once; every line *)
(* of phase 1, its error line included, precedes the separator and every   *)
(* line of phase 2, its error line included, follows it.                   *)
(***************************************************************************)
C10_PhasesSeparated ==
    /\ pc # "header" => out # <<>> /\ out[1].tag = "Analyzing PDF"
    /\ Cardinality(Tagged("Analyzing PDF")) <= 1
    /\ Cardinality(Tagged("separator")) <= 1
    /\ InPhase2 =>
           /\ Cardinality(Tagged("separator")) = 1
           /\ \A i \in Tagged("separator") : Len(out[i].val) = SepWidth
    /\ \A i \in OfPhase(1) : \A j \in Tagged("separator") : i < j
    /\ \A i \in OfPhase(2) : \E j \in Tagged("separator") : j < i
    /\ raised1 # "none" /\ Phase1Over => At(1, "PyPDF2 error") # {}
    /\ raised2 # "none" /\ Phase2Over => At(2, "pdfplumber error") # {}

C10_Witness ==
    /\ pc = "done"
    /\ raised1 = "preview1"
    /\ raised2 = "sizes"
    /\ At(1, "Number of pages") # {}
    /\ At(2, "Unique fonts found") # {}

====
